---- MODULE Spec2Model ----
(***************************************************************************)
(* Model of the invoice-parsing pipeline of src/parse_invoices3.py (the    *)
(* "v3" script) and src/parse_invoices.py (the "v1" script).               *)
(*                                                                         *)
(* Text is a sequence of tokens: the structural phrases the regular        *)
(* expressions of parse_big_geyser look for, words, numbers and the line   *)
(* break "NL".  Whatever the code does character by character (the line    *)
(* patterns, raw[-1], raw[:-1], lower(), the substring tests, difflib) is  *)
(* done here on strings written as tuples of one-character strings.        *)
(***************************************************************************)
EXTENDS Integers, Sequences, FiniteSets, TLC

VARIABLES
  variant,      \* which script runs: "v3" (parse_invoices3.py) or "v1" (parse_invoices.py)
  deps,         \* whether PyPDF2 and pdfplumber can be imported, and --use-plumber
  gl,           \* the index build_gl_index made of the chart of accounts
  pc,           \* where main is: "scan", "emit", "done", "raised"
  parsed,       \* per file scanned so far, the blocks parse_big_geyser gave (invs)
  bi, ii,       \* the block and the item the two inner loops of main are at
  rows,         \* main's list of output rows
  count_files,  \* files the loop over pdf_iter has taken
  out,          \* the table written (out_df), NoTable before
  hint,         \* whether the zero-rows NOTE was printed
  err,          \* what was printed to stderr before raising
  text,         \* the text handed to parse_big_geyser on its own
  results,      \* and what it returned
  gchart,       \* the chart of accounts, a description and the classifier's
  gdesc,        \* answer, for gl_map_for_description on its own
  gres

vars == <<variant, deps, gl, pc, parsed, bi, ii, rows, count_files, out, hint,
          err, text, results, gchart, gdesc, gres>>

----------------------------------------------------------------------------
(* Strings as tuples of characters.                                        *)

\* Python's None, distinct from every string (a string's elements are single characters).
None == <<"None">>

Digits == {"0", "1", "2", "3", "4", "5", "6", "7", "8", "9"}

DigitVal(c) ==
  CASE c = "0" -> 0 [] c = "1" -> 1 [] c = "2" -> 2 [] c = "3" -> 3 [] c = "4" -> 4
    [] c = "5" -> 5 [] c = "6" -> 6 [] c = "7" -> 7 [] c = "8" -> 8 [] c = "9" -> 9

\* int(s) of a string of decimal digits.
RECURSIVE IntOf(_)
IntOf(s) ==
  IF s = << >> THEN 0
  ELSE 10 * IntOf(SubSeq(s, 1, Len(s) - 1)) + DigitVal(s[Len(s)])

UpperLetters ==
  <<"A", "B", "C", "D", "E", "F", "G", "H", "I", "J", "K", "L", "M", "N", "O", "P", "Q", "R", "S", "T", "U", "V", "W", "X", "Y", "Z">>
LowerLetters ==
  <<"a", "b", "c", "d", "e", "f", "g", "h", "i", "j", "k", "l", "m", "n", "o", "p", "q", "r", "s", "t", "u", "v", "w", "x", "y", "z">>

\* str.lower() of one character.
LowerChar(c) ==
  IF \E i \in 1..26 : UpperLetters[i] = c
  THEN LowerLetters[CHOOSE i \in 1..26 : UpperLetters[i] = c]
  ELSE c

Lower(s) == [i \in 1..Len(s) |-> LowerChar(s[i])]

\* Python's `sub in s`.
Contains(s, sub) ==
  \E i \in 0..(Len(s) - Len(sub)) : SubSeq(s, i + 1, i + Len(sub)) = sub

\* Length of the run of digits s starts with, and of the one it ends with.
RECURSIVE LeadDigits(_)
LeadDigits(s) ==
  IF s # << >> /\ s[1] \in Digits THEN 1 + LeadDigits(Tail(s)) ELSE 0

RECURSIVE TrailDigits(_)
TrailDigits(s) ==
  IF s # << >> /\ s[Len(s)] \in Digits
  THEN 1 + TrailDigits(SubSeq(s, 1, Len(s) - 1)) ELSE 0

RECURSIVE LeadSpaces(_)
LeadSpaces(s) ==
  IF s # << >> /\ s[1] = " " THEN 1 + LeadSpaces(Tail(s)) ELSE 0

RECURSIVE TrailSpaces(_)
TrailSpaces(s) ==
  IF s # << >> /\ s[Len(s)] = " "
  THEN 1 + TrailSpaces(SubSeq(s, 1, Len(s) - 1)) ELSE 0

\* str.strip()
Strip(s) == SubSeq(s, LeadSpaces(s) + 1, Len(s) - TrailSpaces(s))

----------------------------------------------------------------------------
(* The text of a PDF: tokens separated by white space.                     *)

\* What each token stands for in the page text.
Chars(tok) ==
  CASE tok = "SKU"     -> <<"4", "5", "0", "1">>
    [] tok = "N0"      -> <<"0">>
    [] tok = "N5"      -> <<"5">>
    [] tok = "N10"     -> <<"1", "0">>
    [] tok = "WIDGET"  -> <<"W", "i", "d", "g", "e", "t">>
    [] tok = "SAMPLE"  -> <<"S", "a", "m", "p", "l", "e">>
    [] tok = "HDR"     -> <<"I", "T", "E", "M", "#", " ", "D", "E", "S", "C", "R", "I", "P", "T", "I", "O", "N", " ", "Q", "T", "Y", " ", "-", "-", "-">>
    [] tok = "CASES"   -> <<"C", "a", "s", "e", "s", ":">>
    [] tok = "FREE"    -> <<"F", "R", "E", "E", " ", "G", "O", "O", "D", "S">>
    [] tok = "FREElc"  -> <<"F", "r", "e", "e", " ", "G", "o", "o", "d", "s">>
    [] tok = "ACCT"    -> <<"A", "c", "c", "o", "u", "n", "t", ":", " ", "1", "0", "0", "1", " ", "I", "n", "v", "o", "i", "c", "e", "#", ":", " ", "A", "B", "1", "2">>
    [] tok = "ACCTLC"  -> <<"A", "c", "c", "o", "u", "n", "t", ":", " ", "1", "0", "0", "2", " ", "I", "n", "v", "o", "i", "c", "e", "#", ":", " ", "a", "b", "3", "4">>
    [] tok = "ACCT_BS" -> <<"A", "c", "c", "o", "u", "n", "t", ":", "\\", "\\", "d", "\\", "I", "n", "v", "o", "i", "c", "e", "#", ":", "\\", "C", "D", "5", "6">>
    [] tok = "Z_BS"    -> <<"\\", "Z">>
    [] tok = "NL"      -> <<"\n">>

\* The tokens of ordinary invoice text, and the two that carry the literal
\* backslashes the patterns of parse_invoices.py ask for.
PlainTokens == {"ACCT", "ACCTLC", "HDR", "CASES", "FREE", "FREElc", "SKU", "N0",
                "N5", "N10", "WIDGET", "SAMPLE", "NL"}
EscTokens == {"ACCT_BS", "Z_BS"}
Tokens == PlainTokens \cup EscTokens

\* `" ".join` of the tokens' text: a run of tokens as the string the line patterns see.
RECURSIVE JoinTokens(_)
JoinTokens(toks) ==
  IF toks = << >> THEN << >>
  ELSE IF Len(toks) = 1 THEN Chars(toks[1])
  ELSE Chars(toks[1]) \o <<" ">> \o JoinTokens(Tail(toks))

\* flat = re.sub(r'\s+', ' ', text): every run of white space, line breaks
\* included, becomes one blank, so no line break is left.
Flatten(toks) == SelectSeq(toks, LAMBDA t : t # "NL")

\* The text parse_big_geyser searches: parse_invoices3.py flattens it,
\* parse_invoices.py searches the text as extracted.
Searched(v, toks) == IF v = "v3" THEN Flatten(toks) ELSE toks

----------------------------------------------------------------------------
(* One line of the item region.                                            *)

\* The primary pattern (?P<sku>\d{3,})\s+(?P<desc>.*?)(?P<qty>\d+)$ on a stripped
\* line: a run of 3+ digits, white space, and then the lazy description leaves
\* the longest run of digits that ends the line to qty.
PrimaryRest(raw) ==
  LET after == SubSeq(raw, LeadDigits(raw) + 1, Len(raw))
  IN  SubSeq(after, LeadSpaces(after) + 1, Len(after))

PrimaryMatches(raw) ==
  LET ld == LeadDigits(raw)
      after == SubSeq(raw, ld + 1, Len(raw))
  IN  /\ ld >= 3
      /\ LeadSpaces(after) >= 1
      /\ TrailDigits(PrimaryRest(raw)) >= 1

\* int(mline.group("qty"))
PrimaryQty(raw) ==
  LET rem == PrimaryRest(raw)
  IN  IntOf(SubSeq(rem, Len(rem) - TrailDigits(rem) + 1, Len(rem)))

\* qty = int(raw[-1]) if raw and raw[-1].isdigit() else 1
FallbackQty(raw) ==
  IF raw # << >> /\ raw[Len(raw)] \in Digits THEN DigitVal(raw[Len(raw)]) ELSE 1

\* The item of one non-blank, stripped line.
ParseLine(raw) ==
  IF PrimaryMatches(raw)
  THEN LET rem == PrimaryRest(raw)
       IN  [sku |-> SubSeq(raw, 1, LeadDigits(raw)),
            description |-> Strip(SubSeq(rem, 1, Len(rem) - TrailDigits(rem))),
            quantity |-> PrimaryQty(raw)]
  ELSE LET rest == Strip(SubSeq(raw, 1, Len(raw) - 1))
           ld == LeadDigits(rest)
           after == SubSeq(rest, ld + 1, Len(rest))
           m2 == ld >= 3 /\ LeadSpaces(after) >= 1
       IN  [sku |-> IF m2 THEN SubSeq(rest, 1, ld) ELSE None,
            description |-> IF m2 THEN Strip(after) ELSE rest,
            quantity |-> FallbackQty(raw)]

----------------------------------------------------------------------------
(* parse_big_geyser: the segmenter and the line-item extractor.            *)

\* The anchor Account:\s*(\d+)\s*Invoice#:\s*([0-9A-Z]+): group 2 needs a capital
\* letter or a digit, so an invoice number in small letters starts no block.
\* parse_invoices.py writes the pattern with doubled backslashes inside a raw
\* string: there \\s is a backslash and the letter s, and only text that holds
\* those backslashes matches.
IsAnchor(v, tok) == IF v = "v3" THEN tok = "ACCT" ELSE tok = "ACCT_BS"

\* The lookahead that ends a block, (?=Account:\s*\d+\s*Invoice#:|\Z): it asks for
\* no invoice number. In parse_invoices.py \\Z is a backslash and the letter Z.
IsAhead(v, tok) ==
  IF v = "v3" THEN tok \in {"ACCT", "ACCTLC"} ELSE tok \in {"ACCT_BS", "Z_BS"}

\* The least index from `from` on whose token is in S, Len + 1 when none is.
RECURSIVE FirstFrom(_, _, _)
FirstFrom(toks, from, S) ==
  IF from > Len(toks) THEN Len(toks) + 1
  ELSE IF toks[from] \in S THEN from
  ELSE FirstFrom(toks, from + 1, S)

\* Where the block of the anchor at index a ends (the index after its last
\* token), 0 when the pattern does not match at a: \Z is the end of the text in
\* parse_invoices3.py alone.
BlockEnd(v, flat, a) ==
  LET e == FirstFrom(flat, a + 1, {t \in Tokens : IsAhead(v, t)})
  IN  IF e > Len(flat) /\ v # "v3" THEN 0 ELSE e

account(v) == IF v = "v3" THEN "1001" ELSE "\\d"
invoice_number(v) == IF v = "v3" THEN "AB12" ELSE "CD56"

\* `for raw in re.split(r'\s*\n', ...)` and `.splitlines()`: the lines of the region.
RECURSIVE SplitLines(_)
SplitLines(toks) ==
  LET n == FirstFrom(toks, 1, {"NL"})
  IN  IF n > Len(toks) THEN <<toks>>
      ELSE <<SubSeq(toks, 1, n - 1)>> \o SplitLines(SubSeq(toks, n + 1, Len(toks)))

\* "FREE GOODS" searched without re.I.
IsFreeGoodsCased(tok) ==
  Contains(Chars(tok), <<"F", "R", "E", "E", " ", "G", "O", "O", "D", "S">>)

\* re.I: "Cases:" and "FREE GOODS" in any case.
IsFreeGoods(tok) ==
  Contains(Lower(Chars(tok)), <<"f", "r", "e", "e", " ", "g", "o", "o", "d", "s">>)

IsCases(tok) == Contains(Lower(Chars(tok)), <<"c", "a", "s", "e", "s", ":">>)

\* The header ITEM#\s*DESCRIPTION\s*QTY\s*-+ of the item table; parse_invoices.py
\* asks for a backslash after each word, which no token holds.
IsHeader(v, tok) == v = "v3" /\ tok = "HDR"

\* m_items: whether the item region is found in the block.
HasRegion(v, block) ==
  FirstFrom(block, 1, {t \in Tokens : IsHeader(v, t)}) <= Len(block)

\* m_items.group(1): from after the header to before the first "Cases:",
\* "FREE GOODS" or the end of the block.
Region(v, block) ==
  LET h == FirstFrom(block, 1, {t \in Tokens : IsHeader(v, t)})
      e == FirstFrom(block, h + 1, {t \in Tokens : IsCases(t) \/ IsFreeGoods(t)})
  IN  SubSeq(block, h + 1, e - 1)

\* The loop over the region's lines: blank lines are skipped, every other line
\* appends one item.
RECURSIVE LineItems(_)
LineItems(lines) ==
  IF lines = << >> THEN << >>
  ELSE (IF lines[1] = << >> THEN << >> ELSE <<ParseLine(JoinTokens(lines[1]))>>)
       \o LineItems(Tail(lines))

FreeGoodsItem ==
  [sku |-> None,
   description |-> <<"F", "R", "E", "E", " ", "G", "O", "O", "D", "S", " ", "-", " ", "N", "O", " ", "C", "H", "A", "R", "G", "E", " ", "T", "O", " ", "C", "U", "S", "T", "O", "M", "E", "R">>,
   quantity |-> 1]

\* The items of one block.
Items(v, block) ==
  LET items == IF HasRegion(v, block) THEN LineItems(SplitLines(Region(v, block)))
               ELSE << >>
  IN  IF items = << >> /\ (\E k \in 1..Len(block) : IsFreeGoods(block[k]))
      THEN <<FreeGoodsItem>>
      ELSE items

\* patt.finditer(flat) from index `from` on, and the loop over its matches. "at"
\* is the anchor's place and "span" the first and last index of group 3 in the
\* searched text.
RECURSIVE Blocks(_, _, _)
Blocks(v, flat, from) ==
  LET a == FirstFrom(flat, from, {t \in Tokens : IsAnchor(v, t)})
      e == BlockEnd(v, flat, a)
  IN  IF a > Len(flat) \/ e = 0 THEN << >>
      ELSE <<[account |-> account(v), invoice_number |-> invoice_number(v),
              at |-> a, span |-> <<a + 1, e - 1>>,
              items |-> Items(v, SubSeq(flat, a + 1, e - 1))]>>
           \o Blocks(v, flat, e)

parse_big_geyser(v, toks) == Blocks(v, Searched(v, toks), 1)

----------------------------------------------------------------------------
(* The GL classifier: build_gl_index and gl_map_for_description.           *)

Unmapped == "Unmapped"

\* kw_map.setdefault(k, num): the first row that sets a key keeps it.
SetDefault(kw, k, num) ==
  IF k \in DOMAIN kw THEN kw ELSE [x \in DOMAIN kw \cup {k} |-> IF x = k THEN num ELSE kw[x]]

\* kw_map.get(k, "Unmapped")
Get(kw, k) == IF k \in DOMAIN kw THEN kw[k] ELSE Unmapped

ContainsAny(d, subs) == \E w \in subs : Contains(d, w)

\* The keywords build_gl_index looks for in an account's name, per key, in the
\* order of its `if` lines.
IndexRules ==
  <<[key |-> "sample", words |-> {<<"s", "a", "m", "p", "l", "e">>}],
    [key |-> "free goods", words |-> {<<"f", "r", "e", "e">>}],
    [key |-> "advertising",
     words |-> {<<"a", "d", "v", "e", "r", "t", "i", "s">>, <<"p", "o", "s">>,
                <<"m", "a", "r", "k", "e", "t", "i", "n", "g">>}],
    [key |-> "rebate", words |-> {<<"r", "e", "b", "a", "t", "e">>}],
    [key |-> "invasion",
     words |-> {<<"i", "n", "v", "a", "s", "i", "o", "n", " ", "f", "e", "e">>,
                <<"s", "l", "o", "t", "t", "i", "n", "g">>}],
    [key |-> "allowance",
     words |-> {<<"a", "l", "l", "o", "w", "a", "n", "c", "e">>,
                <<"d", "i", "s", "c", "o", "u", "n", "t">>,
                <<"o", "f", "f", " ", "i", "n", "v", "o", "i", "c", "e">>}],
    [key |-> "incentive", words |-> {<<"i", "n", "c", "e", "n", "t", "i", "v", "e">>}]>>

\* One row of the chart in the loop of build_gl_index: every key whose
\* keyword the lower-cased account name holds is set, unless set already.
RECURSIVE IndexRow(_, _, _)
IndexRow(kw, row, r) ==
  IF r > Len(IndexRules) THEN kw
  ELSE IndexRow(IF ContainsAny(Lower(row.Account), IndexRules[r].words)
                THEN SetDefault(kw, IndexRules[r].key, row.Number) ELSE kw,
                row, r + 1)

RECURSIVE IndexRows(_, _)
IndexRows(kw, chart) ==
  IF chart = << >> THEN kw
  ELSE IndexRows(IndexRow(kw, chart[1], 1), Tail(chart))

\* acct_by_name = {a: n for a, n in zip(...)}: the last row of a name wins.
acct_by_name(chart, name) ==
  LET last == CHOOSE i \in 1..Len(chart) :
                /\ chart[i].Account = name
                /\ \A j \in (i + 1)..Len(chart) : chart[j].Account # name
  IN  chart[last].Number

\* The index of a chart (its rows that hold both a number and a name, as
\* strings): acct_list, with acct_by_name read from the same rows, and kw_map.
build_gl_index(chart) ==
  [acct_list |-> chart, kw_map |-> IndexRows(<< >>, chart)]

\* difflib.SequenceMatcher(a = the account name, b = the description), no junk.

\* How far a[i..ahi] and b[j..bhi] agree from their first elements.
RECURSIVE CommonLen(_, _, _, _, _, _)
CommonLen(a, b, i, j, ahi, bhi) ==
  IF i <= ahi /\ j <= bhi /\ a[i] = b[j]
  THEN 1 + CommonLen(a, b, i + 1, j + 1, ahi, bhi) ELSE 0

Max(S) == CHOOSE x \in S : \A y \in S : y <= x
Min(S) == CHOOSE x \in S : \A y \in S : x <= y

\* find_longest_match and get_matching_blocks: the longest common block, the
\* one that starts earliest in a and then earliest in b, and the same again to
\* its left and to its right; the sum of the blocks' sizes.
RECURSIVE Matches(_, _, _, _, _, _)
Matches(a, b, alo, ahi, blo, bhi) ==
  IF alo > ahi \/ blo > bhi THEN 0
  ELSE LET K == [p \in (alo..ahi) \X (blo..bhi) |->
                   CommonLen(a, b, p[1], p[2], ahi, bhi)]
           k == Max({K[p] : p \in DOMAIN K})
           i == Min({p[1] : p \in {q \in DOMAIN K : K[q] = k}})
           j == Min({p[2] : p \in {q \in DOMAIN K : K[q] = k /\ q[1] = i}})
       IN  IF k = 0 THEN 0
           ELSE k + Matches(a, b, alo, i - 1, blo, j - 1)
                  + Matches(a, b, i + k, ahi, j + k, bhi)

\* The characters in the order of their code points, for comparing strings.
CodeOrder ==
  <<"\n", " ", "#", "-", "0", "1", "2", "3", "4", "5", "6", "7", "8", "9", ":", "A", "B", "C", "D", "E", "F", "G", "H", "I", "J", "K", "L", "M", "N", "O", "P", "Q", "R", "S", "T", "U", "V", "W", "X", "Y", "Z", "\\", "a", "b", "c", "d", "e", "f", "g", "h", "i", "j", "k", "l", "m", "n", "o", "p", "q", "r", "s", "t", "u", "v", "w", "x", "y", "z">>

Code(c) == CHOOSE i \in 1..Len(CodeOrder) : CodeOrder[i] = c

\* Python's s1 < s2 on strings.
RECURSIVE StrLess(_, _)
StrLess(s1, s2) ==
  IF s2 = << >> THEN FALSE
  ELSE IF s1 = << >> THEN TRUE
  ELSE IF s1[1] # s2[1] THEN Code(s1[1]) < Code(s2[1])
  ELSE StrLess(Tail(s1), Tail(s2))

\* cutoff=0.86 in get_close_matches, in hundredths.
Cutoff == 86

\* ratio() >= cutoff, with ratio = 2.0 * matches / (len(a) + len(b)).
Close(x, desc) ==
  200 * Matches(x, desc, 1, Len(x), 1, Len(desc)) >= Cutoff * (Len(x) + Len(desc))

\* get_close_matches(desc, acct_list, n=1, cutoff=0.86): the names that clear
\* the cutoff, the best (score, name) pair of them; << >> when there is none.
get_close_matches(desc, acct_list) ==
  LET names == {acct_list[i].Account : i \in 1..Len(acct_list)}
      close == {x \in names : Close(x, desc)}
      score(x) == 200 * Matches(x, desc, 1, Len(x), 1, Len(desc))
      \* score(x) / (len(x) + len(desc)), compared by cross-multiplication
      better(x, y) ==
        LET sx == score(x) * (Len(y) + Len(desc))
            sy == score(y) * (Len(x) + Len(desc))
        IN  sx > sy \/ (sx = sy /\ StrLess(y, x))
  IN  IF close = {} THEN << >>
      ELSE <<CHOOSE x \in close : \A y \in close \ {x} : better(x, y)>>

\* The keywords of the `if` lines of gl_map_for_description.
SampleWords ==
  {<<"f", "r", "e", "e", " ", "g", "o", "o", "d", "s">>,
   <<"n", "o", " ", "c", "h", "a", "r", "g", "e">>,
   <<"s", "a", "m", "p", "l", "e">>,
   <<"s", "a", "m", "p", "l", "e", "s">>,
   <<"d", "o", "n", "a", "t", "i", "o", "n">>}
AdvertisingWords ==
  {<<"a", "d", "v", "e", "r", "t", "i", "s">>,
   <<"p", "r", "o", "m", "o">>,
   <<"p", "o", "s">>,
   <<"d", "i", "s", "p", "l", "a", "y">>}
RebateWords == {<<"r", "e", "b", "a", "t", "e">>}
InvasionWords ==
  {<<"s", "l", "o", "t", "t", "i", "n", "g">>,
   <<"i", "n", "v", "a", "s", "i", "o", "n">>}
AllowanceWords ==
  {<<"a", "l", "l", "o", "w", "a", "n", "c", "e">>,
   <<"d", "i", "s", "c", "o", "u", "n", "t">>,
   <<"o", "f", "f", " ", "i", "n", "v", "o", "i", "c", "e">>}
IncentiveWords == {<<"i", "n", "c", "e", "n", "t", "i", "v", "e">>}

\* The fuzzy match and the end of gl_map_for_description.
FuzzyOrUnmapped(desc, index) ==
  LET match == get_close_matches(desc, index.acct_list)
  IN  IF match # << >> THEN acct_by_name(index.acct_list, match[1]) ELSE Unmapped

gl_map_reordered(desc, index) ==
  LET d == Lower(desc)
      kw == index.kw_map
  IN  IF desc = << >> THEN Unmapped
      ELSE IF ContainsAny(d, SampleWords) THEN Get(kw, "sample")
      ELSE IF ContainsAny(d, AllowanceWords) THEN Get(kw, "allowance")
      ELSE IF ContainsAny(d, AdvertisingWords) THEN Get(kw, "advertising")
      ELSE IF ContainsAny(d, RebateWords) THEN Get(kw, "rebate")
      ELSE IF ContainsAny(d, InvasionWords) THEN Get(kw, "invasion")
      ELSE IF ContainsAny(d, IncentiveWords) THEN Get(kw, "incentive")
      ELSE FuzzyOrUnmapped(desc, index)

gl_map_free_goods(desc, index) ==
  LET d == Lower(desc)
      kw == index.kw_map
  IN  IF desc = << >> THEN Unmapped
      ELSE IF ContainsAny(d, {<<"f", "r", "e", "e", " ", "g", "o", "o", "d", "s">>,
                              <<"n", "o", " ", "c", "h", "a", "r", "g", "e">>})
           THEN Get(kw, "free goods")
      ELSE IF ContainsAny(d, SampleWords) THEN Get(kw, "sample")
      ELSE IF ContainsAny(d, AdvertisingWords) THEN Get(kw, "advertising")
      ELSE IF ContainsAny(d, RebateWords) THEN Get(kw, "rebate")
      ELSE IF ContainsAny(d, InvasionWords) THEN Get(kw, "invasion")
      ELSE IF ContainsAny(d, AllowanceWords) THEN Get(kw, "allowance")
      ELSE IF ContainsAny(d, IncentiveWords) THEN Get(kw, "incentive")
      ELSE FuzzyOrUnmapped(desc, index)

\* gl_map_for_description(desc, acct_list, acct_by_name, kw_map), with
\* index.acct_list for acct_list and acct_by_name.
gl_map_for_description(desc, index) ==
  LET d == Lower(desc)
      kw == index.kw_map
  IN  IF desc = << >> THEN Unmapped
      ELSE IF ContainsAny(d, SampleWords) THEN Get(kw, "sample")
      ELSE IF ContainsAny(d, AdvertisingWords) THEN Get(kw, "advertising")
      ELSE IF ContainsAny(d, RebateWords) THEN Get(kw, "rebate")
      ELSE IF ContainsAny(d, InvasionWords) THEN Get(kw, "invasion")
      ELSE IF ContainsAny(d, AllowanceWords) THEN Get(kw, "allowance")
      ELSE IF ContainsAny(d, IncentiveWords) THEN Get(kw, "incentive")
      ELSE FuzzyOrUnmapped(desc, index)

----------------------------------------------------------------------------
(* main: the loop over the PDF files and the record assembler.             *)

NoTable == <<"NoTable">>
NotRun == <<"NotRun">>

\* extract_text_pypdf2: `import PyPDF2` is inside the try, so a failed import
\* ends in `except Exception` and the text is "", like any failed extraction.
\* t is what the library reads from the file.
extract_text_pypdf2(d, t) == IF d.pypdf2 THEN t ELSE << >>

\* extract_text_plumber: "" when pdfplumber cannot be imported.
extract_text_plumber(d, t) == IF d.plumber THEN t ELSE << >>

\* Lines 166-171 of parse_invoices3.py: the text main goes on with; "" skips the file.
ExtractedText3(d, t1, t2) ==
  LET t == extract_text_pypdf2(d, t1)
  IN  IF t = << >> /\ d.use_plumber THEN extract_text_plumber(d, t2) ELSE t

\* `("Account:" in text) and ("Invoice#:" in text)` of parse_invoices.py
HasLabels(toks) ==
  /\ \E k \in 1..Len(toks) :
       Contains(Chars(toks[k]), <<"A", "c", "c", "o", "u", "n", "t", ":">>)
  /\ \E k \in 1..Len(toks) :
       Contains(Chars(toks[k]), <<"I", "n", "v", "o", "i", "c", "e", "#", ":">>)

\* invs of one file.
Invs3(d, t1, t2) ==
  LET t == ExtractedText3(d, t1, t2)
  IN  IF t = << >> THEN << >> ELSE parse_big_geyser("v3", t)

Invs1(t) == IF HasLabels(t) THEN parse_big_geyser("v1", t) ELSE << >>

\* inv["items"] or [{"sku": None, "description": None, "quantity": 1}]
Placeholder == [sku |-> None, description |-> None, quantity |-> 1]
ItemsOrPlaceholder(inv) == IF inv.items = << >> THEN <<Placeholder>> ELSE inv.items

\* qty = it.get("quantity"), without `or 1`.
RowQtyAsParsed(it) == it.quantity

\* qty = it.get("quantity") or 1
RowQty(it) == IF it.quantity = 0 THEN 1 ELSE it.quantity

\* desc or ""
DescOrEmpty(it) == IF it.description = None THEN << >> ELSE it.description

\* The row main builds of a block and an item, the columns that are not
\* constant; file, block and item say which pass of the three loops made it.
MakeRow(inv, it, index, f, b, i) ==
  LET rate == 0
      qty == RowQty(it)
  IN  [tranId |-> inv.invoice_number,
       purchaseItemline_itemRef |-> it.sku,
       purchaseItemline_quantity |-> qty,
       purchaseitemline_unitsRef |-> IF it.sku # None THEN "CASE" ELSE "None",
       purchaseItemLine_rate |-> rate,
       purchaseItemLine_amount |-> rate * qty,
       purchaseItemLine_memo |-> it.description,
       purchaseItemLine_classRef |-> gl_map_for_description(DescOrEmpty(it), index),
       file |-> f, block |-> b, item |-> i]

\* A row without a GL account is left out.
AppendMappedRow(rs, row) ==
  IF row.purchaseItemLine_classRef = Unmapped THEN rs ELSE Append(rs, row)

\* rows.insert(0, row)
PrependRow(rs, row) == <<row>> \o rs

\* rows.append(row)
AppendRow(rs, row) == Append(rs, row)

\* The NOTE printed for a table that has rows.
PrintsHintOnRows(v, table) == v = "v3" /\ Len(table) > 0

\* The zero-rows NOTE of parse_invoices3.py; parse_invoices.py prints the counts only.
PrintsHint(v, table) == v = "v3" /\ Len(table) = 0

----------------------------------------------------------------------------
(* Inputs.                                                                 *)

MaxFiles == 2

Row(num, name) == [Number |-> num, Account |-> name]

SamplesRow == Row("6100", <<"S", "a", "m", "p", "l", "e", "s">>)
WidgetRow == Row("6900", <<"W", "i", "d", "g", "e", "t">>)

\* The charts of accounts a run of main is given.
MainCharts == {<< >>, <<SamplesRow, WidgetRow>>}

\* What the PDF libraries read from a file: nothing, text without an invoice,
\* blocks without items, with FREE GOODS, with an item table of one or two
\* lines, a quantity of 0, and text that holds the backslashes of the
\* patterns of parse_invoices.py.
FileTexts ==
  {<< >>,
   <<"WIDGET">>,
   <<"ACCT", "WIDGET">>,
   <<"ACCT", "FREE">>,
   <<"ACCT", "HDR", "NL", "SKU", "WIDGET", "N0", "NL", "CASES", "N5">>,
   <<"ACCT", "HDR", "NL", "SKU", "WIDGET", "N10", "NL", "WIDGET", "NL", "CASES",
     "ACCTLC", "WIDGET", "ACCT", "SAMPLE">>,
   <<"ACCT", "HDR", "NL", "WIDGET", "NL">>,
   <<"ACCT_BS", "FREElc", "NL", "ACCT_BS", "WIDGET", "Z_BS">>}

Deps == [pypdf2 : BOOLEAN, plumber : BOOLEAN, use_plumber : BOOLEAN]

----------------------------------------------------------------------------
(* The run of main.                                                        *)

Init ==
  /\ variant \in {"v1", "v3"}
  /\ deps \in Deps
  /\ \E c \in MainCharts : gl = build_gl_index(c)
  /\ pc = "scan"
  /\ parsed = << >>
  /\ bi = 1 /\ ii = 1
  /\ rows = << >>
  /\ count_files = 0
  /\ out = NoTable
  /\ hint = FALSE
  /\ err = << >>
  /\ text = NotRun /\ results = NotRun
  /\ gchart = NotRun /\ gdesc = NotRun /\ gres = NotRun

Alone == <<text, results, gchart, gdesc, gres>>

\* The loop takes the file's blocks: on to the first row, or to the next file.
TakeInvs(new) ==
  /\ parsed' = Append(parsed, new)
  /\ count_files' = count_files + 1
  /\ bi' = 1 /\ ii' = 1
  /\ pc' = IF new = << >> THEN "scan" ELSE "emit"
  /\ UNCHANGED <<variant, deps, gl, rows, out, hint, err, Alone>>

\* parse_invoices3.py, one pass of `for pdf in pdf_iter` up to the loop over invs.
NextFile3 ==
  /\ variant = "v3" /\ pc = "scan" /\ count_files < MaxFiles
  /\ \E t1 \in FileTexts, t2 \in FileTexts : TakeInvs(Invs3(deps, t1, t2))

\* parse_invoices.py, the same: extract_text_from_pdf prints the error and
\* raises when PyPDF2 cannot be imported, and main does not catch it.
NextFile1 ==
  /\ variant = "v1" /\ pc = "scan" /\ count_files < MaxFiles
  /\ IF deps.pypdf2
     THEN \E t \in FileTexts : TakeInvs(Invs1(t))
     ELSE /\ pc' = "raised"
          /\ err' = <<"P", "y", "P", "D", "F", "2", " ", "i", "s", " ", "r", "e", "q", "u", "i", "r", "e", "d">>
          /\ count_files' = count_files + 1
          /\ UNCHANGED <<variant, deps, gl, parsed, bi, ii, rows, out, hint, Alone>>

\* One pass of the innermost loop: rows.append(row), and on to the next item,
\* the next block or the next file.
EmitRow ==
  /\ pc = "emit"
  /\ LET invs == parsed[Len(parsed)]
         inv == invs[bi]
         items == ItemsOrPlaceholder(inv)
     IN  /\ rows' = AppendRow(rows, MakeRow(inv, items[ii], gl, Len(parsed), bi, ii))
         /\ IF ii < Len(items) THEN ii' = ii + 1 /\ bi' = bi /\ pc' = pc
            ELSE IF bi < Len(invs) THEN ii' = 1 /\ bi' = bi + 1 /\ pc' = pc
            ELSE ii' = 1 /\ bi' = 1 /\ pc' = "scan"
  /\ UNCHANGED <<variant, deps, gl, parsed, count_files, out, hint, err, Alone>>

\* pdf_iter is exhausted: the table is written and the run reports.
WriteOutput ==
  /\ pc = "scan"
  /\ out' = rows
  /\ hint' = PrintsHint(variant, rows)
  /\ pc' = "done"
  /\ UNCHANGED <<variant, deps, gl, parsed, bi, ii, rows, count_files, err, Alone>>

Next == NextFile3 \/ NextFile1 \/ EmitRow \/ WriteOutput

Spec == Init /\ [][Next]_vars

----------------------------------------------------------------------------
(* parse_big_geyser on its own, on every text of up to MaxLen tokens.      *)

MaxLen == 5

SeqsUpTo(S, n) == UNION {[1..k -> S] : k \in 0..n}

\* The tokens the texts are made of: for parse_invoices3.py those of ordinary
\* invoice text, for parse_invoices.py also those that hold its backslashes.
ParseTokens(v) ==
  IF v = "v3"
  THEN {"ACCT", "ACCTLC", "HDR", "CASES", "FREElc", "SKU", "N0", "N10", "WIDGET", "NL"}
  ELSE {"ACCT", "ACCT_BS", "Z_BS", "HDR", "FREElc", "WIDGET", "NL"}

InitParse ==
  /\ variant \in {"v1", "v3"}
  /\ text \in SeqsUpTo(ParseTokens(variant), MaxLen)
  /\ results = NotRun
  /\ pc = "parse"
  /\ deps = [pypdf2 |-> TRUE, plumber |-> TRUE, use_plumber |-> FALSE]
  /\ gl = build_gl_index(<< >>)
  /\ parsed = << >> /\ bi = 1 /\ ii = 1 /\ rows = << >> /\ count_files = 0
  /\ out = NoTable /\ hint = FALSE /\ err = << >>
  /\ gchart = NotRun /\ gdesc = NotRun /\ gres = NotRun

Parse ==
  /\ pc = "parse"
  /\ results' = parse_big_geyser(variant, text)
  /\ pc' = "parsed"
  /\ UNCHANGED <<variant, deps, gl, parsed, bi, ii, rows, count_files, out, hint,
                 err, text, gchart, gdesc, gres>>

NextParse == Parse

SpecParse == InitParse /\ [][NextParse]_vars

----------------------------------------------------------------------------
(* gl_map_for_description on its own, on the index of every chart of up to  *)
(* MaxChart rows and every description of up to MaxWords words.             *)

MaxChart == 2
MaxWords == 2

ChartRows ==
  {Row("6100", <<"S", "a", "m", "p", "l", "e", "s">>),
   Row("6200", <<"A", "d", "v", "e", "r", "t", "i", "s", "i", "n", "g">>),
   Row("6300", <<"R", "e", "b", "a", "t", "e", "s">>),
   Row("6400", <<"S", "l", "o", "t", "t", "i", "n", "g">>),
   Row("6500", <<"A", "l", "l", "o", "w", "a", "n", "c", "e">>),
   Row("6600", <<"I", "n", "c", "e", "n", "t", "i", "v", "e">>),
   Row("6700", <<"P", "r", "o", "m", "o", " ", "F", "u", "n", "d">>),
   Row("6800", <<"F", "r", "e", "e", " ", "G", "o", "o", "d", "s">>),
   Row("6900", <<"W", "i", "d", "g", "e", "t">>)}

\* The charts: rows in any order, none twice.
Charts ==
  {c \in SeqsUpTo(ChartRows, MaxChart) : \A i, j \in 1..Len(c) : i # j => c[i] # c[j]}

DescWords ==
  {<<"A", "d", "v", "e", "r", "t", "i", "s", "i", "n", "g">>,
   <<"A", "l", "l", "o", "w", "a", "n", "c", "e">>,
   <<"R", "E", "B", "A", "T", "E">>,
   <<"S", "a", "m", "p", "l", "e">>,
   <<"W", "i", "d", "g", "e">>,
   <<"F", "r", "e", "e", " ", "G", "o", "o", "d", "s">>,
   <<"N", "o", " ", "C", "h", "a", "r", "g", "e">>,
   <<"I", "n", "c", "e", "n", "t", "i", "v", "e">>,
   <<"S", "l", "o", "t", "t", "i", "n", "g">>,
   <<"P", "r", "o", "m", "o", " ", "F", "u", "n", "d">>}

RECURSIVE JoinWords(_)
JoinWords(ws) ==
  IF ws = << >> THEN << >>
  ELSE IF Len(ws) = 1 THEN ws[1]
  ELSE ws[1] \o <<" ">> \o JoinWords(Tail(ws))

\* "Advertising Allowance - POS Display"
ScenarioDesc ==
  <<"A", "d", "v", "e", "r", "t", "i", "s", "i", "n", "g", " ", "A", "l", "l", "o", "w", "a", "n", "c", "e", " ", "-", " ", "P", "O", "S", " ", "D", "i", "s", "p", "l", "a", "y">>

Descs == {JoinWords(ws) : ws \in SeqsUpTo(DescWords, MaxWords)} \cup {ScenarioDesc}

InitGL ==
  /\ gchart \in Charts
  /\ gl = build_gl_index(gchart)
  /\ gdesc \in Descs
  /\ gres = NotRun
  /\ pc = "classify"
  /\ variant = "v3"
  /\ deps = [pypdf2 |-> TRUE, plumber |-> TRUE, use_plumber |-> FALSE]
  /\ parsed = << >> /\ bi = 1 /\ ii = 1 /\ rows = << >> /\ count_files = 0
  /\ out = NoTable /\ hint = FALSE /\ err = << >>
  /\ text = NotRun /\ results = NotRun

Classify ==
  /\ pc = "classify"
  /\ gres' = gl_map_for_description(gdesc, gl)
  /\ pc' = "classified"
  /\ UNCHANGED <<variant, deps, gl, parsed, bi, ii, rows, count_files, out, hint,
                 err, text, results, gchart, gdesc>>

NextGL == Classify

SpecGL == InitGL /\ [][NextGL]_vars

----------------------------------------------------------------------------
(* Properties of parse_big_geyser (under SpecParse).                       *)

\* The block of results[k] as tokens of the text that was searched.
BlockOf(k) ==
  SubSeq(Searched(variant, text), results[k].span[1], results[k].span[2])

\* The blocks of the page text as extracted, line breaks kept: the same
\* anchors as in the searched text, in the same order.
PageBlocks ==
  LET B == Blocks(variant, text, 1)
  IN  [k \in 1..Len(B) |-> SubSeq(text, B[k].span[1], B[k].span[2])]

NonBlankLines(region) == Len(SelectSeq(SplitLines(region), LAMBDA l : l # << >>))

\* C1: every line item parse_big_geyser produces has an integer quantity of at
\* least 1, whatever the line (primary pattern, fallback or the FREE GOODS item).
C1_QuantityAtLeastOne ==
  pc = "parsed" =>
    \A k \in 1..Len(results) : \A i \in 1..Len(results[k].items) :
      /\ results[k].items[i].quantity \in Nat
      /\ results[k].items[i].quantity >= 1

\* C2: a block whose item region is found has one line item per non-blank line
\* of that region of the page text: K non-blank lines give K items.
C2_OneItemPerLine ==
  pc = "parsed" =>
    \A k \in 1..Len(results) :
      LET K == NonBlankLines(Region(variant, PageBlocks[k]))
      IN  (HasRegion(variant, PageBlocks[k]) /\ K >= 1) => Len(results[k].items) = K

\* An anchor "Account: <digits> Invoice#: <alphanumeric>", the invoice number in
\* capitals or in small letters.
WellFormedAnchors == {"ACCT", "ACCTLC"}

AnchorPlaces(s) == SelectSeq([i \in 1..Len(s) |-> i], LAMBDA i : s[i] \in WellFormedAnchors)

\* C4: a text with N well-formed anchors gives N blocks, one per anchor in the
\* order of the text, each from just after its anchor to just before the next
\* anchor, or to the end of the text; none for a text without anchors.
C4_OneBlockPerAnchor ==
  pc = "parsed" =>
    LET s == Searched(variant, text)
        A == AnchorPlaces(s)
    IN  /\ Len(results) = Len(A)
        /\ \A k \in 1..Len(results) :
             /\ results[k].at = A[k]
             /\ results[k].span[1] = A[k] + 1
             /\ results[k].span[2] = (IF k < Len(A) THEN A[k + 1] ELSE Len(s) + 1) - 1

HoldsFreeGoods(block) == \E i \in 1..Len(block) : block[i] \in {"FREE", "FREElc"}

\* C9: a block in which no item region is found has exactly the one item
\* {sku absent, "FREE GOODS - NO CHARGE TO CUSTOMER", quantity 1} when it holds
\* "FREE GOODS" in any case, and no item when it does not.
C9_FreeGoodsOrNothing ==
  pc = "parsed" =>
    \A k \in 1..Len(results) :
      ~HasRegion(variant, BlockOf(k)) =>
        results[k].items =
          IF HoldsFreeGoods(BlockOf(k))
          THEN <<[sku |-> None,
                  description |-> <<"F", "R", "E", "E", " ", "G", "O", "O", "D", "S", " ", "-", " ", "N", "O", " ", "C", "H", "A", "R", "G", "E", " ", "T", "O", " ", "C", "U", "S", "T", "O", "M", "E", "R">>,
                  quantity |-> 1]>>
          ELSE << >>

\* A block without an item region that holds "Free Goods" and has the one item,
\* after a block that holds neither and has none.
C9_Witness ==
  /\ pc = "parsed" /\ variant = "v3" /\ Len(results) = 2
  /\ ~HasRegion(variant, BlockOf(1)) /\ ~HoldsFreeGoods(BlockOf(1))
  /\ results[1].items = << >>
  /\ ~HasRegion(variant, BlockOf(2)) /\ HoldsFreeGoods(BlockOf(2))
  /\ Len(results[2].items) = 1 /\ results[2].items[1].quantity = 1

----------------------------------------------------------------------------
(* Properties of gl_map_for_description (under SpecGL).                    *)

\* The rules of the classifier in their order, each with its keywords and the
\* key of kw_map it answers with.
ClassifierRules ==
  <<[key |-> "sample", words |-> {<<"f", "r", "e", "e", " ", "g", "o", "o", "d", "s">>, <<"n", "o", " ", "c", "h", "a", "r", "g", "e">>, <<"s", "a", "m", "p", "l", "e">>, <<"s", "a", "m", "p", "l", "e", "s">>, <<"d", "o", "n", "a", "t", "i", "o", "n">>}],
    [key |-> "advertising", words |-> {<<"a", "d", "v", "e", "r", "t", "i", "s">>, <<"p", "r", "o", "m", "o">>, <<"p", "o", "s">>, <<"d", "i", "s", "p", "l", "a", "y">>}],
    [key |-> "rebate", words |-> {<<"r", "e", "b", "a", "t", "e">>}],
    [key |-> "invasion", words |-> {<<"s", "l", "o", "t", "t", "i", "n", "g">>, <<"i", "n", "v", "a", "s", "i", "o", "n">>}],
    [key |-> "allowance", words |-> {<<"a", "l", "l", "o", "w", "a", "n", "c", "e">>, <<"d", "i", "s", "c", "o", "u", "n", "t">>, <<"o", "f", "f", " ", "i", "n", "v", "o", "i", "c", "e">>}],
    [key |-> "incentive", words |-> {<<"i", "n", "c", "e", "n", "t", "i", "v", "e">>}]>>

RulesOf(d) == {r \in 1..Len(ClassifierRules) : ContainsAny(d, ClassifierRules[r].words)}

\* C3: the classifier answers with the first rule, in the order empty, sample,
\* advertising, rebate, invasion, allowance, incentive, whose condition holds:
\* "Unmapped" for an empty description, else the account of the first keyword
\* rule the lower-cased description matches, "Unmapped" when the index has none
\* for it; the fuzzy match is not consulted. "Advertising Allowance - POS
\* Display" gets the advertising account.
C3_FirstRuleWins ==
  pc = "classified" =>
    LET d == Lower(gdesc)
    IN  /\ gdesc = << >> => gres = Unmapped
        /\ (gdesc # << >> /\ RulesOf(d) # {}) =>
             gres = Get(gl.kw_map, ClassifierRules[Min(RulesOf(d))].key)
        /\ gdesc = ScenarioDesc => gres = Get(gl.kw_map, "advertising")

\* The scenario's description against a chart with an advertising and an
\* allowance account.
C3_Witness ==
  /\ pc = "classified" /\ gdesc = ScenarioDesc
  /\ {"advertising", "allowance"} \subseteq DOMAIN gl.kw_map
  /\ gl.kw_map["advertising"] # gl.kw_map["allowance"]
  /\ gres = gl.kw_map["advertising"]

\* The index with its "free goods" entry set to the number v; every other
\* entry and the accounts as they are.
WithFreeGoods(index, v) ==
  LET kw == index.kw_map
  IN  [index EXCEPT !.kw_map =
         [k \in DOMAIN kw \cup {"free goods"} |-> IF k = "free goods" THEN v ELSE kw[k]]]

\* The index without a "free goods" entry.
WithoutFreeGoods(index) ==
  LET kw == index.kw_map
  IN  [index EXCEPT !.kw_map = [k \in DOMAIN kw \ {"free goods"} |-> kw[k]]]

FreeGoodsEntries == {r.Number : r \in ChartRows}

NamesHold(chart, w) == \E i \in 1..Len(chart) : Contains(Lower(chart[i].Account), w)

SaysFreeGoods(desc) ==
  ContainsAny(Lower(desc), {<<"f", "r", "e", "e", " ", "g", "o", "o", "d", "s">>,
                            <<"n", "o", " ", "c", "h", "a", "r", "g", "e">>})

\* C11: the "free goods" entry of the keyword table has no influence on a
\* classification: the classifier gives the answer it gave for every index
\* that differs from the one built only in that entry (another number, or no
\* entry). A description that says "free goods" or "no charge" gets the
\* "sample" entry, so it is "Unmapped" when the chart has a name holding
\* "free" and none holding "sample".
C11_FreeGoodsEntryUnused ==
  pc = "classified" =>
    /\ \A v \in FreeGoodsEntries :
         gl_map_for_description(gdesc, WithFreeGoods(gl, v)) = gres
    /\ gl_map_for_description(gdesc, WithoutFreeGoods(gl)) = gres
    /\ SaysFreeGoods(gdesc) => gres = Get(gl.kw_map, "sample")
    /\ (/\ SaysFreeGoods(gdesc)
        /\ NamesHold(gchart, <<"f", "r", "e", "e">>)
        /\ ~NamesHold(gchart, <<"s", "a", "m", "p", "l", "e">>)) => gres = Unmapped

\* "Free Goods" classified against a chart with a "Free Goods" account and no
\* sample account: the index has the "free goods" entry and the answer is
\* "Unmapped".
C11_Witness ==
  /\ pc = "classified" /\ SaysFreeGoods(gdesc)
  /\ NamesHold(gchart, <<"f", "r", "e", "e">>)
  /\ ~NamesHold(gchart, <<"s", "a", "m", "p", "l", "e">>)
  /\ "free goods" \in DOMAIN gl.kw_map
  /\ gres = Unmapped

----------------------------------------------------------------------------
(* Properties of main (under Spec).                                        *)

\* C5: when the PDF text library cannot be imported the run is fatal: once a
\* file is taken the error is reported and main raises; no table is written.
C5_MissingDependencyIsFatal ==
  (~deps.pypdf2 /\ ~(deps.use_plumber /\ deps.plumber) /\ count_files >= 1) =>
    (pc = "raised" /\ err # << >> /\ out = NoTable)

\* C6: a run that ends with zero rows completed normally, wrote a table of zero
\* rows and printed the zero-rows hint.
C6_ZeroRowsHint ==
  (pc = "done" /\ Len(rows) = 0) => (out = << >> /\ hint)

\* C6 as amended: main raises only for the missing PyPDF2 of parse_invoices.py;
\* a run that ends with zero rows wrote a table of zero rows, and printed the
\* hint if and only if it is parse_invoices3.py.
C6_ZeroRowsHintV3 ==
  /\ pc = "raised" => (variant = "v1" /\ ~deps.pypdf2)
  /\ (pc = "done" /\ Len(rows) = 0) => (out = << >> /\ (hint <=> variant = "v3"))
  /\ hint => (pc = "done" /\ Len(out) = 0)

\* A run of parse_invoices3.py that took files, found no block and printed the hint.
C6_Witness ==
  /\ pc = "done" /\ variant = "v3" /\ count_files >= 1
  /\ rows = << >> /\ out = << >> /\ hint

\* The rows a block is to give: one per item, one for a block without items.
BlockRows(inv) == IF Len(inv.items) >= 1 THEN Len(inv.items) ELSE 1

RowsOf(f, b) == {k \in 1..Len(rows) : rows[k].file = f /\ rows[k].block = b}

RECURSIVE SumBlockRows(_)
SumBlockRows(invs) ==
  IF invs = << >> THEN 0 ELSE BlockRows(invs[1]) + SumBlockRows(Tail(invs))

RECURSIVE SumFileRows(_)
SumFileRows(files) ==
  IF files = << >> THEN 0 ELSE SumBlockRows(files[1]) + SumFileRows(Tail(files))

IsPrefix(s, u) == Len(s) <= Len(u) /\ SubSeq(u, 1, Len(s)) = s

\* Row r was made before row q: an earlier file, or an earlier block of the
\* same file, or an earlier item of the same block.
MadeBefore(r, q) ==
  \/ r.file < q.file
  \/ r.file = q.file /\ r.block < q.block
  \/ r.file = q.file /\ r.block = q.block /\ r.item < q.item

\* Row r is the row of its block and item.
RowOfItem(r) ==
  /\ r.file \in 1..Len(parsed) /\ r.block \in 1..Len(parsed[r.file])
  /\ LET inv == parsed[r.file][r.block]
     IN  /\ r.tranId = inv.invoice_number
         /\ r.item \in 1..BlockRows(inv)
         /\ r.purchaseItemLine_memo =
              IF inv.items = << >> THEN None ELSE inv.items[r.item].description

InDiscoveryOrder ==
  /\ \A k \in 1..Len(rows) : RowOfItem(rows[k])
  /\ \A i \in 1..Len(rows) : \A j \in 1..Len(rows) :
       i < j => MadeBefore(rows[i], rows[j])
  /\ pc = "done" => out = rows

C10_RowQuantity ==
  \A k \in 1..Len(rows) :
    /\ rows[k].purchaseItemline_quantity \in Nat
    /\ rows[k].purchaseItemline_quantity >= 1
    /\ rows[k].purchaseItemLine_rate = 0
    /\ rows[k].purchaseItemLine_amount = 0

\* A row of an item parsed with quantity 0, and a row of the placeholder.
C10_Witness ==
  /\ \E k \in 1..Len(rows) :
       LET inv == parsed[rows[k].file][rows[k].block]
       IN  /\ inv.items # << >>
           /\ inv.items[rows[k].item].quantity = 0
           /\ rows[k].purchaseItemline_quantity = 1
  /\ \E k \in 1..Len(rows) : parsed[rows[k].file][rows[k].block].items = << >>

====
